---- MODULE Spec2Model ----
(***************************************************************************)
(* Model of operator/pkg/reconciliation/constructor.go: the constructors   *)
(* of the Kubernetes objects of a DseDatacenter (services, the per-rack    *)
(* StatefulSet, the PodDisruptionBudget) and addOperatorProgressLabel.     *)
(*                                                                         *)
(* Go values are modelled as follows: a struct is a record, a map is a     *)
(* function on its keys, a slice is a sequence, a pointer is a sequence of  *)
(* length 0 (nil) or 1, an error is a string, with "nil" for no error.      *)
(***************************************************************************)
EXTENDS Integers, Sequences, FiniteSets, TLC

VARIABLES
    dseDatacenter,  \* the in-memory DseDatacenter object the calls are made on
    ret,            \* the last constructor call: its name, arguments and results
    stored,         \* the DseDatacenter as persisted behind rc.Client
    calls           \* the addOperatorProgressLabel calls made so far, in order

vars == <<dseDatacenter, ret, stored, calls>>

----------------------------------------------------------------------------
(* Bounds of the model *)

MaxRacks == 2
MaxSize == 2
MaxReplicas == 1
MaxCalls == 3
MaxVersion == 2

RackNames == {"r1", "r2"}
Zones == {"", "za", "zb"}
RackNameArgs == RackNames \cup {"r3"}

----------------------------------------------------------------------------
(* Go values *)

Nil == <<>>
Ptr(v) == <<v>>
Deref(p) == p[1]
NoError == "nil"
EmptyMap == <<>>

\* m[k] of a Go map: the zero value "" when k is not a key
Lookup(m, k) == IF k \in DOMAIN m THEN m[k] ELSE ""

\* m[k] = v of a Go map
Put(m, k, v) == [x \in (DOMAIN m) \cup {k} |-> IF x = k THEN v ELSE m[x]]

\* int32(x) of an int x: every integer of the model lies within
\* -2^31 .. 2^31 - 1, where the conversion keeps the value
Int32(x) == x

\* x - 1 of an int32 x: the least int32 wraps to the greatest
Dec32(x) == IF x = -2147483647 - 1 THEN 2147483647 ELSE x - 1

SeqsUpTo(S, n) == UNION {[1..k -> S] : k \in 0..n}

----------------------------------------------------------------------------
(* Names of package datastaxv1alpha1 and oplabels the constructors use *)

ClusterLabel == "com.datastax.dse.cluster"
DatacenterLabel == "com.datastax.dse.datacenter"
RackLabel == "com.datastax.dse.rack"
SeedNodeLabel == "com.datastax.dse.seednode"
DseNodeState == "com.datastax.dse.node.state"
DseOperatorProgressLabel == "com.datastax.dse.operator.progress"
ManagedByLabel == "app.kubernetes.io/managed-by"
ManagedByLabelValue == "dse-operator"

GetClusterLabels(dc) == Put(EmptyMap, ClusterLabel, dc.Spec.DseClusterName)

GetDatacenterLabels(dc) == Put(GetClusterLabels(dc), DatacenterLabel, dc.Name)

GetRackLabels(dc, rackName) == Put(GetDatacenterLabels(dc), RackLabel, rackName)

AddManagedByLabel(m) == Put(m, ManagedByLabel, ManagedByLabelValue)

GetDseDatacenterServiceName(dc) == dc.Spec.DseClusterName \o "-" \o dc.Name \o "-service"

GetSeedServiceName(dc) == dc.Spec.DseClusterName \o "-seed-service"

GetAllPodsServiceName(dc) == dc.Spec.DseClusterName \o "-" \o dc.Name \o "-all-pods-service"

GetConfigBuilderImage(dc) == "config-builder-image"

----------------------------------------------------------------------------
(* Services *)

makeGenericHeadlessService(dc) ==
    LET labels == AddManagedByLabel(GetDatacenterLabels(dc))
    IN  [ObjectMeta |-> [Name |-> "", Namespace |-> dc.Namespace, Labels |-> labels],
         Spec |-> [Selector |-> labels,
                   Type |-> "ClusterIP",
                   ClusterIP |-> "None",
                   Ports |-> <<>>,
                   PublishNotReadyAddresses |-> FALSE]]

newServiceForDseDatacenter(dc) ==
    LET service == makeGenericHeadlessService(dc)
    IN  [service EXCEPT
            !.ObjectMeta.Name = GetDseDatacenterServiceName(dc),
            !.Spec.Ports = << [Name |-> "native", Port |-> 9042, TargetPort |-> 9042],
                              [Name |-> "mgmt-api", Port |-> 8080, TargetPort |-> 8080] >>]

buildLabelSelectorForSeedServiceNoSeed(dc) == GetClusterLabels(dc)

buildLabelSelectorForSeedService(dc) ==
    Put(GetClusterLabels(dc), SeedNodeLabel, "true")

newSeedServiceForDseDatacenter(dc) ==
    LET service == makeGenericHeadlessService(dc)
        labels == AddManagedByLabel(GetClusterLabels(dc))
    IN  [service EXCEPT
            !.ObjectMeta.Name = GetSeedServiceName(dc),
            !.ObjectMeta.Labels = labels,
            !.Spec.Selector = buildLabelSelectorForSeedService(dc),
            !.Spec.PublishNotReadyAddresses = TRUE]

newAllDsePodsServiceForDseDatacenter(dc) ==
    LET service == makeGenericHeadlessService(dc)
    IN  [service EXCEPT
            !.ObjectMeta.Name = GetAllPodsServiceName(dc),
            !.Spec.PublishNotReadyAddresses = TRUE]

----------------------------------------------------------------------------
(* Affinity *)

zoneRequirement(zone) ==
    [MatchExpressions |-> << [Key |-> "failure-domain.beta.kubernetes.io/zone",
                              Operator |-> "In",
                              Values |-> <<zone>>] >>]

calculateNodeAffinityPreferred(zone) ==
    IF zone = "" THEN Nil
    ELSE Ptr([RequiredDuringSchedulingIgnoredDuringExecution |-> Nil,
              PreferredDuringSchedulingIgnoredDuringExecution |->
                << [Weight |-> 1, Preference |-> zoneRequirement(zone)] >>])

\* a corev1.NodeAffinity with its required selector set and no preferred terms
calculateNodeAffinity(zone) ==
    IF zone = "" THEN Nil
    ELSE Ptr([RequiredDuringSchedulingIgnoredDuringExecution |->
                Ptr([NodeSelectorTerms |-> <<zoneRequirement(zone)>>]),
              PreferredDuringSchedulingIgnoredDuringExecution |-> <<>>])

hostAntiAffinityTerm ==
    [LabelSelector |->
        Ptr([MatchExpressions |->
               << [Key |-> ClusterLabel, Operator |-> "Exists"],
                  [Key |-> DatacenterLabel, Operator |-> "Exists"],
                  [Key |-> RackLabel, Operator |-> "Exists"] >>]),
     TopologyKey |-> "kubernetes.io/hostname"]

calculatePodAntiAffinityInverted(allowMultipleNodesPerWorker) ==
    IF ~allowMultipleNodesPerWorker THEN Nil
    ELSE Ptr([RequiredDuringSchedulingIgnoredDuringExecution |-> <<hostAntiAffinityTerm>>,
              PreferredDuringSchedulingIgnoredDuringExecution |-> <<>>])

\* a corev1.PodAntiAffinity with one required term and no preferred terms
calculatePodAntiAffinity(allowMultipleNodesPerWorker) ==
    IF allowMultipleNodesPerWorker THEN Nil
    ELSE Ptr([RequiredDuringSchedulingIgnoredDuringExecution |-> <<hostAntiAffinityTerm>>,
              PreferredDuringSchedulingIgnoredDuringExecution |-> <<>>])

----------------------------------------------------------------------------
(* External collaborators of newStatefulSetForDseDatacenter. env holds the  *)
(* outcome of each for one call: an error (NoError when it succeeds) and,  *)
(* for the security decorator, whether it changed the template.            *)

Outcomes(e) == {NoError, e}

Envs == [config : Outcomes("config error"),
         ports : Outcomes("ports error"),
         image : Outcomes("image error"),
         security : Outcomes("security error"),
         securityMutates : BOOLEAN]

GetConfigAsJSON(dc, env) ==
    [val |-> IF env.config = NoError THEN "config-json" ELSE "", err |-> env.config]

GetContainerPorts(dc, env) ==
    [val |-> IF env.ports = NoError
               THEN << [Name |-> "native", ContainerPort |-> 9042],
                       [Name |-> "mgmt-api", ContainerPort |-> 8080] >>
               ELSE <<>>,
     err |-> env.ports]

GetServerImage(dc, env) ==
    [val |-> IF env.image = NoError THEN "dse-server-image" ELSE "", err |-> env.image]

\* mutates the template in place and returns an error
AddManagementApiServerSecurity(dc, template, env) ==
    [template |-> IF env.securityMutates
                    THEN [template EXCEPT !.Spec.Volumes =
                            Append(@, [Name |-> "management-api-security",
                                       VolumeSource |-> "Secret"])]
                    ELSE template,
     err |-> env.security]

----------------------------------------------------------------------------
(* StatefulSet *)

newNamespacedNameForStatefulSet(dseDc, rackName) ==
    [Name |-> dseDc.Spec.DseClusterName \o "-" \o dseDc.Name \o "-" \o rackName \o "-sts",
     Namespace |-> dseDc.Namespace]

\* the loop over the racks: every rack named rackName assigns zone, in order
RECURSIVE zoneLoop(_, _, _, _)
zoneLoop(racks, rackName, i, zone) ==
    IF i > Len(racks) THEN zone
    ELSE zoneLoop(racks, rackName, i + 1,
                  IF racks[i].Name = rackName THEN racks[i].Zone ELSE zone)

rackZone(racks, rackName) == zoneLoop(racks, rackName, 1, "")

\* "Add storage if storage claim defined": the mounts and the claim templates after it
addStorageReadWriteMany(dc, pvcLabels, dseVolumeMounts) ==
    IF dc.Spec.StorageClaim # Nil
      THEN LET pvcName == "dse-data"
               storageClaim == Deref(dc.Spec.StorageClaim)
           IN  [dseVolumeMounts |->
                    Append(dseVolumeMounts,
                           [Name |-> pvcName, MountPath |-> "/var/lib/cassandra"]),
                volumeClaimTemplates |->
                    << [ObjectMeta |-> [Labels |-> pvcLabels, Name |-> pvcName],
                        Spec |-> [AccessModes |-> <<"ReadWriteMany">>,
                                  Resources |-> storageClaim.Resources,
                                  StorageClassName |-> Ptr(storageClaim.StorageClassName)]] >>]
      ELSE [dseVolumeMounts |-> dseVolumeMounts, volumeClaimTemplates |-> <<>>]

addStorage(dc, pvcLabels, dseVolumeMounts) ==
    IF dc.Spec.StorageClaim # Nil
      THEN LET pvcName == "dse-data"
               storageClaim == Deref(dc.Spec.StorageClaim)
           IN  [dseVolumeMounts |->
                    Append(dseVolumeMounts,
                           [Name |-> pvcName, MountPath |-> "/var/lib/cassandra"]),
                volumeClaimTemplates |->
                    << [ObjectMeta |-> [Labels |-> pvcLabels, Name |-> pvcName],
                        Spec |-> [AccessModes |-> <<"ReadWriteOnce">>,
                                  Resources |-> storageClaim.Resources,
                                  StorageClassName |-> Ptr(storageClaim.StorageClassName)]] >>]
      ELSE [dseVolumeMounts |-> dseVolumeMounts, volumeClaimTemplates |-> <<>>]

\* the pod template literal
podTemplate(dc, podLabels, zone, configData, ports, dseImage, dseVolumeMounts) ==
    LET userID == 999
        dseConfigVolumeMount == [Name |-> "dse-config", MountPath |-> "/config"]
        serviceAccount == IF dc.Spec.ServiceAccount # ""
                            THEN dc.Spec.ServiceAccount ELSE "default"
    IN  [ObjectMeta |-> [Labels |-> podLabels],
         Spec |->
           [Affinity |-> Ptr([NodeAffinity |-> calculateNodeAffinity(zone),
                              PodAntiAffinity |->
                                calculatePodAntiAffinity(dc.Spec.AllowMultipleNodesPerWorker)]),
            SecurityContext |-> Ptr([RunAsUser |-> userID,
                                     RunAsGroup |-> userID,
                                     FSGroup |-> userID]),
            Volumes |-> << [Name |-> "dse-config", VolumeSource |-> "EmptyDir"],
                           [Name |-> "dse-logs", VolumeSource |-> "EmptyDir"] >>,
            InitContainers |->
              << [Name |-> "dse-config-init",
                  Image |-> GetConfigBuilderImage(dc),
                  VolumeMounts |-> <<dseConfigVolumeMount>>,
                  Env |-> << [Name |-> "CONFIG_FILE_DATA", Value |-> configData],
                             [Name |-> "POD_IP", FieldPath |-> "status.podIP"],
                             [Name |-> "RACK_NAME",
                              FieldPath |-> "metadata.labels['" \o RackLabel \o "']"],
                             [Name |-> "DSE_VERSION", Value |-> dc.Spec.DseVersion] >>] >>,
            ServiceAccountName |-> serviceAccount,
            Containers |->
              << [Name |-> "dse",
                  Image |-> dseImage,
                  Resources |-> dc.Spec.Resources,
                  Env |-> << [Name |-> "DS_LICENSE", Value |-> "accept"],
                             [Name |-> "DSE_AUTO_CONF_OFF", Value |-> "all"],
                             [Name |-> "USE_MGMT_API", Value |-> "true"],
                             [Name |-> "DSE_MGMT_EXPLICIT_START", Value |-> "true"] >>,
                  Ports |-> ports,
                  LivenessProbe |-> Ptr([Port |-> 8080,
                                         Path |-> "/api/v0/probes/liveness",
                                         InitialDelaySeconds |-> 15,
                                         PeriodSeconds |-> 15]),
                  ReadinessProbe |-> Ptr([Port |-> 8080,
                                          Path |-> "/api/v0/probes/readiness",
                                          InitialDelaySeconds |-> 20,
                                          PeriodSeconds |-> 10]),
                  VolumeMounts |-> dseVolumeMounts],
                 [Name |-> "dse-system-logger",
                  Image |-> "busybox",
                  Args |-> <<"/bin/sh", "-c", "tail -n+1 -F /var/log/cassandra/system.log">>,
                  VolumeMounts |-> << [Name |-> "dse-logs",
                                       MountPath |-> "/var/log/cassandra"] >>] >>]]

\* "return nil, err". discarded is the error the call dropped, if any.
errorReturnPartial(err) == [val |-> Ptr([ObjectMeta |-> [Name |-> ""]]), err |-> err,
                            discarded |-> NoError]

errorReturn(err) == [val |-> Nil, err |-> err, discarded |-> NoError]

newStatefulSetForDseDatacenter(rackName, dc, replicaCount, env) ==
    LET replicaCountInt32 == Int32(replicaCount)
        podLabels == Put(AddManagedByLabel(GetRackLabels(dc, rackName)),
                         DseNodeState, "Ready-to-Start")
        pvcLabels == AddManagedByLabel(GetRackLabels(dc, rackName))
        statefulSetLabels == AddManagedByLabel(GetRackLabels(dc, rackName))
        statefulSetSelectorLabels == GetRackLabels(dc, rackName)
        zone == rackZone(dc.Spec.Racks, rackName)
        mounts0 == << [Name |-> "dse-config", MountPath |-> "/config"],
                      [Name |-> "dse-logs", MountPath |-> "/var/log/cassandra"] >>
        configData == GetConfigAsJSON(dc, env)
        storage == addStorage(dc, pvcLabels, mounts0)
        ports == GetContainerPorts(dc, env)
        dseImage == GetServerImage(dc, env)
        nsName == newNamespacedNameForStatefulSet(dc, rackName)
        template == podTemplate(dc, podLabels, zone, configData.val, ports.val,
                                dseImage.val, storage.dseVolumeMounts)
        decorated == AddManagementApiServerSecurity(dc, template, env)
    IN  IF configData.err # NoError THEN errorReturn(configData.err)
        ELSE IF ports.err # NoError THEN errorReturn(ports.err)
        ELSE IF dseImage.err # NoError THEN errorReturn(dseImage.err)
        ELSE [val |-> Ptr(
                [ObjectMeta |-> [Name |-> nsName.Name,
                                 Namespace |-> nsName.Namespace,
                                 Labels |-> statefulSetLabels],
                 Spec |-> [Selector |-> Ptr([MatchLabels |-> statefulSetSelectorLabels]),
                           Replicas |-> Ptr(replicaCountInt32),
                           ServiceName |-> GetDseDatacenterServiceName(dc),
                           PodManagementPolicy |-> "Parallel",
                           Template |-> decorated.template,
                           VolumeClaimTemplates |-> storage.volumeClaimTemplates]]),
              err |-> NoError,
              discarded |-> decorated.err]

----------------------------------------------------------------------------
(* PodDisruptionBudget *)

minAvailableAtLeastOne(dc) ==
    IF dc.Spec.Size <= 1 THEN 1 ELSE Int32(Dec32(dc.Spec.Size))

\* intstr.FromInt(int(dseDatacenter.Spec.Size - 1)): int32 arithmetic, stored as int32
minAvailable(dc) == Int32(Dec32(dc.Spec.Size))

newPodDisruptionBudgetForDatacenter(dc) ==
    [ObjectMeta |-> [Name |-> dc.Name \o "-pdb",
                     Namespace |-> dc.Namespace,
                     Labels |-> AddManagedByLabel(GetDatacenterLabels(dc))],
     Spec |-> [Selector |-> Ptr([MatchLabels |-> GetDatacenterLabels(dc)]),
               MinAvailable |-> Ptr(minAvailable(dc))]]

----------------------------------------------------------------------------
(* Progress label *)

updating == "Updating"
ready == "Ready"
dseOperatorStatus == {updating, ready}

\* rc.DseDatacenter.GetLabels(): nil when the object has no label map
GetLabels(obj) == IF obj.LabelsNil THEN Nil ELSE obj.Labels

SetLabels(obj, labels) == [obj EXCEPT !.Labels = labels, !.LabelsNil = FALSE]

\* rc.Client.Update(ctx, obj): the write fails when the transport does (fail)
\* or when obj is not the stored version; it leaves obj as it is then.
ClientUpdate(store, obj, fail) ==
    IF fail
      THEN [store |-> store, obj |-> obj, err |-> "transport error"]
    ELSE IF obj.ResourceVersion # store.ResourceVersion
      THEN [store |-> store, obj |-> obj, err |-> "conflict"]
    ELSE [store |-> [Labels |-> obj.Labels,
                     ResourceVersion |-> store.ResourceVersion + 1],
          obj |-> [obj EXCEPT !.ResourceVersion = store.ResourceVersion + 1],
          err |-> NoError]

\* updates lists the result of every rc.Client.Update the call made
addOperatorProgressLabelNoSkip(rc, status, fail) ==
    LET labelVal == status
        dcLabels == IF GetLabels(rc.DseDatacenter) = Nil
                      THEN EmptyMap ELSE GetLabels(rc.DseDatacenter)
        u == ClientUpdate(rc.Client,
                          SetLabels(rc.DseDatacenter,
                                    Put(dcLabels, DseOperatorProgressLabel, labelVal)),
                          fail)
    IN  [rc |-> [DseDatacenter |-> u.obj, Client |-> u.store],
         err |-> u.err,
         updates |-> <<u.err>>]

addOperatorProgressLabelRetry(rc, status, fail) ==
    LET labelVal == status
        dcLabels == IF GetLabels(rc.DseDatacenter) = Nil
                      THEN EmptyMap ELSE GetLabels(rc.DseDatacenter)
        obj == SetLabels(rc.DseDatacenter,
                         Put(dcLabels, DseOperatorProgressLabel, labelVal))
        u == ClientUpdate(rc.Client, obj, fail)
        v == ClientUpdate(u.store, u.obj, FALSE)
    IN  IF Lookup(dcLabels, DseOperatorProgressLabel) = labelVal
          THEN [rc |-> rc, err |-> NoError, updates |-> <<>>]
        ELSE IF u.err = NoError
          THEN [rc |-> [DseDatacenter |-> u.obj, Client |-> u.store],
                err |-> u.err,
                updates |-> <<u.err>>]
        ELSE [rc |-> [DseDatacenter |-> v.obj, Client |-> v.store],
              err |-> v.err,
              updates |-> <<u.err, v.err>>]

addOperatorProgressLabel(rc, status, fail) ==
    LET labelVal == status
        dcLabels == IF GetLabels(rc.DseDatacenter) = Nil
                      THEN EmptyMap ELSE GetLabels(rc.DseDatacenter)
        u == ClientUpdate(rc.Client,
                          SetLabels(rc.DseDatacenter,
                                    Put(dcLabels, DseOperatorProgressLabel, labelVal)),
                          fail)
    IN  IF Lookup(dcLabels, DseOperatorProgressLabel) = labelVal
          THEN [rc |-> rc, err |-> NoError, updates |-> <<>>]
        ELSE [rc |-> [DseDatacenter |-> u.obj, Client |-> u.store],
              err |-> u.err,
              updates |-> <<u.err>>]

----------------------------------------------------------------------------
(* The datacenters the calls are made on *)

Racks == [Name : RackNames, Zone : Zones]

StorageClaims == {Nil,
                  Ptr([StorageClassName |-> "fast", Resources |-> "10Gi"]),
                  Ptr([StorageClassName |-> "slow", Resources |-> "20Gi"])}

DatacenterSpecs ==
    [DseClusterName : {"cluster1"},
     DseVersion : {"6.8.0"},
     Size : 0..MaxSize,
     Racks : SeqsUpTo(Racks, MaxRacks),
     StorageClaim : StorageClaims,
     Resources : {"resources"},
     AllowMultipleNodesPerWorker : BOOLEAN,
     ServiceAccount : {"", "dse-sa"}]

LabelMaps ==
    {EmptyMap,
     Put(EmptyMap, DseOperatorProgressLabel, updating),
     Put(EmptyMap, DseOperatorProgressLabel, ready),
     Put(EmptyMap, "team", "db"),
     Put(Put(EmptyMap, "team", "db"), DseOperatorProgressLabel, updating),
     Put(Put(EmptyMap, "team", "db"), DseOperatorProgressLabel, ready)}

Datacenter(spec, labels, labelsNil) ==
    [Name |-> "dc1",
     Namespace |-> "ns1",
     Labels |-> labels,
     LabelsNil |-> labelsNil,
     ResourceVersion |-> 0,
     Spec |-> spec]

NoCall == [op |-> "none"]

----------------------------------------------------------------------------
(* Synthesis: each action is one constructor call on the datacenter. A     *)
(* constructor reads dseDatacenter alone and no constructor changes it, so *)
(* a behaviour makes one call: a second call would see what the first saw.  *)

InitSynth ==
    /\ \E spec \in DatacenterSpecs : dseDatacenter = Datacenter(spec, EmptyMap, TRUE)
    /\ ret = NoCall
    /\ stored = [Labels |-> EmptyMap, ResourceVersion |-> 0]
    /\ calls = <<>>

NewService ==
    /\ ret = NoCall
    /\ ret' = [op |-> "newServiceForDseDatacenter",
               val |-> Ptr(newServiceForDseDatacenter(dseDatacenter))]
    /\ UNCHANGED <<dseDatacenter, stored, calls>>

NewSeedService ==
    /\ ret = NoCall
    /\ ret' = [op |-> "newSeedServiceForDseDatacenter",
               val |-> Ptr(newSeedServiceForDseDatacenter(dseDatacenter))]
    /\ UNCHANGED <<dseDatacenter, stored, calls>>

NewAllDsePodsService ==
    /\ ret = NoCall
    /\ ret' = [op |-> "newAllDsePodsServiceForDseDatacenter",
               val |-> Ptr(newAllDsePodsServiceForDseDatacenter(dseDatacenter))]
    /\ UNCHANGED <<dseDatacenter, stored, calls>>

NewStatefulSet ==
    /\ ret = NoCall
    /\ \E rackName \in RackNameArgs, replicaCount \in 0..MaxReplicas, env \in Envs :
         LET r == newStatefulSetForDseDatacenter(rackName, dseDatacenter, replicaCount, env)
         IN  ret' = [op |-> "newStatefulSetForDseDatacenter",
                     rackName |-> rackName,
                     replicaCount |-> replicaCount,
                     env |-> env,
                     val |-> r.val,
                     err |-> r.err,
                     discarded |-> r.discarded]
    /\ UNCHANGED <<dseDatacenter, stored, calls>>

NewPodDisruptionBudget ==
    /\ ret = NoCall
    /\ ret' = [op |-> "newPodDisruptionBudgetForDatacenter",
               val |-> Ptr(newPodDisruptionBudgetForDatacenter(dseDatacenter))]
    /\ UNCHANGED <<dseDatacenter, stored, calls>>

NextSynth ==
    \/ NewService
    \/ NewSeedService
    \/ NewAllDsePodsService
    \/ NewStatefulSet
    \/ NewPodDisruptionBudget

SpecSynth == InitSynth /\ [][NextSynth]_vars

----------------------------------------------------------------------------
(* Progress label: calls of addOperatorProgressLabel by one caller on one   *)
(* in-memory object, other writers of the stored object, and re-reads       *)

FixedSpec ==
    [DseClusterName |-> "cluster1",
     DseVersion |-> "6.8.0",
     Size |-> 1,
     Racks |-> <<>>,
     StorageClaim |-> Nil,
     Resources |-> "resources",
     AllowMultipleNodesPerWorker |-> FALSE,
     ServiceAccount |-> ""]

InitLabel ==
    /\ \E labels \in LabelMaps, labelsNil \in BOOLEAN :
         /\ labelsNil => labels = EmptyMap
         /\ dseDatacenter = Datacenter(FixedSpec, labels, labelsNil)
         /\ stored = [Labels |-> labels, ResourceVersion |-> 0]
    /\ ret = NoCall
    /\ calls = <<>>

Transition ==
    /\ Len(calls) < MaxCalls
    /\ \E status \in dseOperatorStatus, fail \in BOOLEAN :
         LET r == addOperatorProgressLabel(
                      [DseDatacenter |-> dseDatacenter, Client |-> stored], status, fail)
         IN  /\ dseDatacenter' = r.rc.DseDatacenter
             /\ stored' = r.rc.Client
             /\ calls' = Append(calls,
                    [status |-> status,
                     before |-> Lookup(dseDatacenter.Labels, DseOperatorProgressLabel),
                     storedBefore |-> Lookup(stored.Labels, DseOperatorProgressLabel),
                     updates |-> r.updates,
                     err |-> r.err,
                     storedAfter |-> Lookup(r.rc.Client.Labels, DseOperatorProgressLabel)])
    /\ UNCHANGED ret

\* another writer updates a part of the stored object other than its labels
OtherWriter ==
    /\ stored.ResourceVersion < MaxVersion
    /\ stored' = [stored EXCEPT !.ResourceVersion = @ + 1]
    /\ UNCHANGED <<dseDatacenter, ret, calls>>

\* the caller reads the stored object again
Refetch ==
    /\ dseDatacenter' = [dseDatacenter EXCEPT
                            !.Labels = stored.Labels,
                            !.LabelsNil = (stored.Labels = EmptyMap),
                            !.ResourceVersion = stored.ResourceVersion]
    /\ UNCHANGED <<stored, ret, calls>>

NextLabel ==
    \/ Transition
    \/ OtherWriter
    \/ Refetch

SpecLabel == InitLabel /\ [][NextLabel]_vars

----------------------------------------------------------------------------
(* Properties of the synthesis, checked under SpecSynth *)

IsStatefulSetCall == ret.op = "newStatefulSetForDseDatacenter"

\* the three collaborators called before the template is built all succeeded
ResolutionSucceeded ==
    /\ ret.env.config = NoError
    /\ ret.env.ports = NoError
    /\ ret.env.image = NoError

StatefulSetBuilt == IsStatefulSetCall /\ ret.err = NoError /\ ret.val # Nil

BuiltPodSpec == Deref(ret.val).Spec.Template.Spec

\* the zones declared by the racks of the datacenter named as the call's rack
DeclaredZones ==
    {dseDatacenter.Spec.Racks[i].Zone :
        i \in {j \in 1..Len(dseDatacenter.Spec.Racks) :
                 dseDatacenter.Spec.Racks[j].Name = ret.rackName}}

\* C2: when the security decorator fails while the pod template is assembled,
\* newStatefulSetForDseDatacenter returns a non-nil error
C2_SecurityErrorPropagates ==
    (IsStatefulSetCall /\ ResolutionSucceeded /\ ret.env.security # NoError)
        => ret.err # NoError

\* C3: when GetConfigAsJSON, GetContainerPorts or GetServerImage fails, the call
\* returns the error of the first that failed and a nil StatefulSet, with or
\* without a storage claim
C3_ResolutionFailureAborts ==
    (IsStatefulSetCall /\ ~ResolutionSucceeded) =>
        /\ ret.val = Nil
        /\ ret.err # NoError
        /\ ret.err = (IF ret.env.config # NoError THEN ret.env.config
                      ELSE IF ret.env.ports # NoError THEN ret.env.ports
                      ELSE ret.env.image)

C3_Witness ==
    /\ IsStatefulSetCall
    /\ dseDatacenter.Spec.StorageClaim # Nil
    /\ ret.env.config = NoError
    /\ ret.env.ports # NoError
    /\ ret.val = Nil
    /\ ret.err = ret.env.ports

\* n is a required node affinity with the single term "zone label In {z}"
RequiresZone(n, z) ==
    /\ n # Nil
    /\ Deref(n).RequiredDuringSchedulingIgnoredDuringExecution # Nil
    /\ LET terms == Deref(Deref(n).RequiredDuringSchedulingIgnoredDuringExecution)
                        .NodeSelectorTerms
       IN  /\ Len(terms) = 1
           /\ Len(terms[1].MatchExpressions) = 1
           /\ terms[1].MatchExpressions[1].Key = "failure-domain.beta.kubernetes.io/zone"
           /\ terms[1].MatchExpressions[1].Operator = "In"
           /\ terms[1].MatchExpressions[1].Values = <<z>>

\* C5: a built StatefulSet has no node affinity when no rack has the call's rack
\* name or the zone of the rack of that name is empty; otherwise it has a required
\* node affinity on exactly the zone declared for the rack of that name. (When
\* several racks share the name and declare different zones, the affinity is
\* absent or requires one of the declared zones.)
C5_NodeAffinityFollowsZone ==
    StatefulSetBuilt =>
        LET n == Deref(BuiltPodSpec.Affinity).NodeAffinity
        IN  /\ DeclaredZones \subseteq {""} => n = Nil
            /\ \A z \in Zones \ {""} : DeclaredZones = {z} => RequiresZone(n, z)
            /\ n = Nil \/ \E z \in DeclaredZones \ {""} : RequiresZone(n, z)

C5_Witness ==
    /\ StatefulSetBuilt
    /\ Len(dseDatacenter.Spec.Racks) = 2
    /\ DeclaredZones = {"zb"}
    /\ \E i \in 1..2 : dseDatacenter.Spec.Racks[i].Zone = "za"
    /\ RequiresZone(Deref(BuiltPodSpec.Affinity).NodeAffinity, "zb")

\* the mounts of the main container named as the data volume
DataVolumeMounts ==
    {i \in 1..Len(BuiltPodSpec.Containers[1].VolumeMounts) :
        BuiltPodSpec.Containers[1].VolumeMounts[i].Name = "dse-data"}

\* C6: a built StatefulSet of a datacenter with a storage claim has exactly one
\* volume claim template, named dse-data, ReadWriteOnce, of the declared resources
\* and storage class, and the main container mounts dse-data; without a storage
\* claim it has no claim template and the main container has no dse-data mount
C6_StorageClaimTemplates ==
    StatefulSetBuilt =>
        LET templates == Deref(ret.val).Spec.VolumeClaimTemplates
            claim == dseDatacenter.Spec.StorageClaim
        IN  /\ BuiltPodSpec.Containers[1].Name = "dse"
            /\ claim # Nil =>
                 /\ Len(templates) = 1
                 /\ templates[1].ObjectMeta.Name = "dse-data"
                 /\ templates[1].Spec.AccessModes = <<"ReadWriteOnce">>
                 /\ templates[1].Spec.Resources = Deref(claim).Resources
                 /\ templates[1].Spec.StorageClassName = Ptr(Deref(claim).StorageClassName)
                 /\ Cardinality(DataVolumeMounts) = 1
            /\ claim = Nil =>
                 /\ Len(templates) = 0
                 /\ DataVolumeMounts = {}

C6_Witness ==
    /\ StatefulSetBuilt
    /\ dseDatacenter.Spec.StorageClaim # Nil
    /\ Deref(dseDatacenter.Spec.StorageClaim).StorageClassName = "slow"
    /\ Len(Deref(ret.val).Spec.VolumeClaimTemplates) = 1
    /\ DataVolumeMounts # {}

IsSeedServiceCall == ret.op = "newSeedServiceForDseDatacenter"

ClientSelector == newServiceForDseDatacenter(dseDatacenter).Spec.Selector

\* every entry of map a is an entry of map b
SubMap(a, b) == \A k \in DOMAIN a : k \in DOMAIN b /\ b[k] = a[k]

\* C7 as stated: the seed service's selector holds every entry of the client
\* service's selector and the seed marker "true", and the seed service publishes
\* not-ready addresses and is headless
C7_SeedSelectorExtendsClientSelector ==
    IsSeedServiceCall =>
        /\ SubMap(ClientSelector, Deref(ret.val).Spec.Selector)
        /\ Lookup(Deref(ret.val).Spec.Selector, SeedNodeLabel) = "true"
        /\ Deref(ret.val).Spec.PublishNotReadyAddresses = TRUE
        /\ Deref(ret.val).Spec.ClusterIP = "None"

\* C7 amended: the seed service's selector is the cluster label set with the seed
\* marker "true" added: its other entries are entries of the client service's
\* selector, of which it has neither the datacenter label nor the managed-by
\* label; the seed service publishes not-ready addresses and is headless
C7_SeedSelectorIsClusterScoped ==
    IsSeedServiceCall =>
        LET sel == Deref(ret.val).Spec.Selector
        IN  /\ DOMAIN sel = {ClusterLabel, SeedNodeLabel}
            /\ sel[ClusterLabel] = dseDatacenter.Spec.DseClusterName
            /\ sel[SeedNodeLabel] = "true"
            /\ SubMap([k \in {ClusterLabel} |-> sel[k]], ClientSelector)
            /\ DatacenterLabel \in DOMAIN ClientSelector
            /\ ManagedByLabel \in DOMAIN ClientSelector
            /\ Deref(ret.val).Spec.PublishNotReadyAddresses = TRUE
            /\ Deref(ret.val).Spec.ClusterIP = "None"

C7_Witness ==
    /\ IsSeedServiceCall
    /\ Deref(ret.val).Spec.Selector[SeedNodeLabel] = "true"
    /\ DatacenterLabel \notin DOMAIN Deref(ret.val).Spec.Selector
    /\ Deref(ret.val).Spec.PublishNotReadyAddresses

\* C8: the pod template of a built StatefulSet has no pod anti-affinity when
\* allowMultipleNodesPerWorker is true; when it is false it has one required
\* anti-affinity term, of topology key hostname, selecting the pods that have the
\* cluster, datacenter and rack labels
C8_PodAntiAffinityFollowsFlag ==
    StatefulSetBuilt =>
        LET a == Deref(BuiltPodSpec.Affinity).PodAntiAffinity
        IN  IF dseDatacenter.Spec.AllowMultipleNodesPerWorker
              THEN a = Nil
              ELSE /\ a # Nil
                   /\ Len(Deref(a).RequiredDuringSchedulingIgnoredDuringExecution) = 1
                   /\ LET term == Deref(a).RequiredDuringSchedulingIgnoredDuringExecution[1]
                          exprs == Deref(term.LabelSelector).MatchExpressions
                      IN  /\ term.TopologyKey = "kubernetes.io/hostname"
                          /\ {exprs[i].Key : i \in 1..Len(exprs)}
                                = {ClusterLabel, DatacenterLabel, RackLabel}
                          /\ \A i \in 1..Len(exprs) : exprs[i].Operator = "Exists"

C8_Witness ==
    /\ StatefulSetBuilt
    /\ ~dseDatacenter.Spec.AllowMultipleNodesPerWorker
    /\ Deref(BuiltPodSpec.Affinity).PodAntiAffinity # Nil

IsPodDisruptionBudgetCall == ret.op = "newPodDisruptionBudgetForDatacenter"

\* C9: the PodDisruptionBudget of a datacenter of size >= 1 has minAvailable
\* size - 1; size 1 gives 0
C9_MinAvailableIsSizeMinusOne ==
    (IsPodDisruptionBudgetCall /\ dseDatacenter.Spec.Size >= 1) =>
        Deref(Deref(ret.val).Spec.MinAvailable) = dseDatacenter.Spec.Size - 1

C9_Witness ==
    /\ IsPodDisruptionBudgetCall
    /\ dseDatacenter.Spec.Size = 1
    /\ Deref(Deref(ret.val).Spec.MinAvailable) = 0

----------------------------------------------------------------------------
(* Properties of the progress label, checked under SpecLabel *)

\* every rc.Client.Update made by the first n calls succeeded
WritesSucceeded(n) ==
    \A i \in 1..n : \A k \in 1..Len(calls[i].updates) : calls[i].updates[k] = NoError

\* C1: while every write succeeds, a call writes (once) exactly when its status
\* differs from the progress label of the object, which is then also the stored
\* one; two consecutive calls with Ready on an object whose label is not Ready
\* make one write between them, the first
C1_WriteIffLabelDiffers ==
    WritesSucceeded(Len(calls)) =>
        /\ \A i \in 1..Len(calls) :
              /\ calls[i].before = calls[i].storedBefore
              /\ Len(calls[i].updates) = (IF calls[i].status # calls[i].before THEN 1 ELSE 0)
        /\ \A i \in 1..(Len(calls) - 1) :
              (calls[i].status = ready /\ calls[i + 1].status = ready
                 /\ calls[i].before # ready)
              => (Len(calls[i].updates) = 1 /\ Len(calls[i + 1].updates) = 0)

C1_Witness ==
    /\ WritesSucceeded(Len(calls))
    /\ \E i \in 1..(Len(calls) - 1) :
          /\ calls[i].status = ready
          /\ calls[i + 1].status = ready
          /\ calls[i].before = updating
          /\ Len(calls[i].updates) = 1
          /\ Len(calls[i + 1].updates) = 0
          /\ calls[i + 1].storedAfter = ready

\* C4: a call whose status differs from the progress label of the object makes
\* exactly one rc.Client.Update and returns what that Update returned, the error
\* when it fails; no call makes more than one Update
C4_OneWriteAttempt ==
    \A i \in 1..Len(calls) :
        /\ Len(calls[i].updates) <= 1
        /\ calls[i].status # calls[i].before =>
              /\ Len(calls[i].updates) = 1
              /\ calls[i].err = calls[i].updates[1]

C4_Witness ==
    \E i, j \in 1..Len(calls) :
        /\ calls[i].status # calls[i].before
        /\ calls[i].updates = <<"conflict">>
        /\ calls[i].err = "conflict"
        /\ calls[j].status # calls[j].before
        /\ calls[j].updates = <<"transport error">>
        /\ calls[j].err = "transport error"

\* C10: whenever a call returns without error, the stored progress label is the
\* call's status
C10_NoErrorMeansStored ==
    \A i \in 1..Len(calls) :
        calls[i].err = NoError => calls[i].storedAfter = calls[i].status

====
